---- MODULE Spec2Model ----
(***************************************************************************)
(* Model of skyscrapers.py: the validation of a skyscrapers board.         *)
(*                                                                         *)
(* A character is a one-character string, a str is a sequence of           *)
(* characters, a board is a sequence of str.  Python indices are 0-based,  *)
(* the sequences here are 1-based: Python's range(1, len(x) - 1) is        *)
(* 2..Len(x)-1 and x[1:-1] is SubSeq(x, 2, Len(x)-1).                      *)
(* A Python return value is one of "True", "False"; a call that raises     *)
(* yields "ValueError".                                                    *)
(***************************************************************************)
EXTENDS Integers, Sequences, FiniteSets, TLC

VARIABLES
    content,                \* the text of the file at input_path
    board,                  \* check_skyscrapers: board
    is_finished,            \* check_skyscrapers: is_finished
    is_unique,              \* check_skyscrapers: is_unique
    is_horizontally_valid,  \* check_skyscrapers: is_horizontally_valid
    is_vertically_valid,    \* check_skyscrapers: is_vertically_valid
    result,                 \* what the running function returned (or raised)
    pc,                     \* the statement about to run
    calls,                  \* history: the calls made so far, in order, with what each returned
    vis_lines,              \* history: the lines check_visibility has been applied to
    line                    \* check_visibility: line

vars == <<content, board, is_finished, is_unique, is_horizontally_valid,
          is_vertically_valid, result, pc, calls, vis_lines, line>>

----------------------------------------------------------------------------
(* Bounds of the model *)

MaxN == 4          \* boards are N x N for N in 2..MaxN (borders included)
MaxEdits == 2      \* cells of a valid board overwritten by arbitrary characters
MaxLineLen == 5    \* length of a line handed to check_visibility on its own
MaxFileLen == 5    \* characters of a file handed to read_input on its own

(* Characters *)

DigitChars == <<"0", "1", "2", "3", "4", "5", "6", "7", "8", "9">>
Cells == {"1", "2", "3", "*", "?"}
Whitespace == {" ", "\n"}
FileChars == {"1", "*", " ", "\n"}
Unset == "unset"

SeqsUpTo(S, n) == UNION {[1..k -> S] : k \in 0..n}
Chars(s) == {s[i] : i \in 1..Len(s)}

----------------------------------------------------------------------------
(* str methods and built-ins used by the program *)

IsDigit(c) == \E d \in 1..10 : DigitChars[d] = c

\* int(c) for a one-character string that is a digit
int(c) == (CHOOSE d \in 1..10 : DigitChars[d] = c) - 1

RECURSIVE RStrip(_)
RStrip(s) ==
    IF s = <<>> \/ s[Len(s)] \notin Whitespace THEN s
    ELSE RStrip(SubSeq(s, 1, Len(s) - 1))

RECURSIVE LStrip(_)
LStrip(s) ==
    IF s = <<>> \/ s[1] \notin Whitespace THEN s
    ELSE LStrip(SubSeq(s, 2, Len(s)))

\* a strip that removes trailing whitespace only
strip_trailing(s) == RStrip(s)

\* str.strip(): whitespace is removed at both ends
strip(s) == LStrip(RStrip(s))

\* index of the first "\n" of s at or after idx, Len(s) when there is none
RECURSIVE LineEnd(_, _)
LineEnd(s, idx) ==
    IF idx >= Len(s) \/ s[idx] = "\n" THEN idx ELSE LineEnd(s, idx + 1)

\* file.readlines(): the lines of the text, each with its "\n" if it has one
RECURSIVE readlines(_)
readlines(s) ==
    IF s = <<>> THEN <<>>
    ELSE LET k == LineEnd(s, 1)
         IN  <<SubSeq(s, 1, k)>> \o readlines(SubSeq(s, k + 1, Len(s)))

read_input(text) ==
    LET contents == readlines(text)
    IN  [i \in 1..Len(contents) |-> strip(contents[i])]

----------------------------------------------------------------------------
(* check_not_finished_board *)

\* the inner loop: for cell in row, from cell idx on; TRUE when a '?' is met
RECURSIVE RowHasUnknown(_, _)
RowHasUnknown(row, idx) ==
    IF idx > Len(row) THEN FALSE
    ELSE IF row[idx] = "?" THEN TRUE
    ELSE RowHasUnknown(row, idx + 1)

\* the outer loop: for row in board, from row idx on
RECURSIVE NotFinishedLoop(_, _)
NotFinishedLoop(b, idx) ==
    IF idx > Len(b) THEN "True"
    ELSE IF RowHasUnknown(b[idx], 1) THEN "False"
    ELSE NotFinishedLoop(b, idx + 1)

\* a completeness check that looks at the interior cells only
check_not_finished_interior(b) ==
    IF \E r \in 2..Len(b) - 1 : \E c \in 2..Len(b[r]) - 1 : b[r][c] = "?"
    THEN "False" ELSE "True"

check_not_finished_board(b) == NotFinishedLoop(b, 1)

----------------------------------------------------------------------------
(* check_uniqueness_in_rows *)

\* the inner loop over cell_idx, with the set heights collected so far;
\* FALSE when a cell is met whose character is already in heights
RECURSIVE RowCellsLoop(_, _, _, _)
RowCellsLoop(row, cell_idx, last, heights) ==
    IF cell_idx > last THEN TRUE
    ELSE IF row[cell_idx] = "*" THEN RowCellsLoop(row, cell_idx + 1, last, heights)
    ELSE IF row[cell_idx] \in heights THEN FALSE
    ELSE RowCellsLoop(row, cell_idx + 1, last, heights \cup {row[cell_idx]})

\* the outer loop over row_idx
RECURSIVE RowsLoop(_, _)
RowsLoop(b, row_idx) ==
    IF row_idx > Len(b) - 1 THEN "True"
    ELSE IF ~RowCellsLoop(b[row_idx], 2, Len(b[row_idx]) - 1, {}) THEN "False"
    ELSE RowsLoop(b, row_idx + 1)

\* a row check whose inner loop runs over the whole row, border cells included
RECURSIVE RowsLoopWholeRow(_, _)
RowsLoopWholeRow(b, row_idx) ==
    IF row_idx > Len(b) - 1 THEN "True"
    ELSE IF ~RowCellsLoop(b[row_idx], 1, Len(b[row_idx]), {}) THEN "False"
    ELSE RowsLoopWholeRow(b, row_idx + 1)

check_uniqueness_in_rows_whole_row(b) == RowsLoopWholeRow(b, 2)

check_uniqueness_in_rows(b) == RowsLoop(b, 2)

----------------------------------------------------------------------------
(* check_uniqueness_in_columns *)

\* the inner loop over row_idx for the column col_idx
RECURSIVE ColCellsLoop(_, _, _, _, _)
ColCellsLoop(b, col_idx, row_idx, last, heights) ==
    IF row_idx > last THEN TRUE
    ELSE IF b[row_idx][col_idx] = "*"
         THEN ColCellsLoop(b, col_idx, row_idx + 1, last, heights)
    ELSE IF b[row_idx][col_idx] \in heights THEN FALSE
    ELSE ColCellsLoop(b, col_idx, row_idx + 1, last,
                      heights \cup {b[row_idx][col_idx]})

\* the outer loop over col_idx, range(1, len(board[0]) - 1)
RECURSIVE ColsLoop(_, _)
ColsLoop(b, col_idx) ==
    IF col_idx > Len(b[1]) - 1 THEN "True"
    ELSE IF ~ColCellsLoop(b, col_idx, 2, Len(b) - 1, {}) THEN "False"
    ELSE ColsLoop(b, col_idx + 1)

\* a column check whose inner loop runs over every row, border rows included
RECURSIVE ColsLoopWholeColumn(_, _)
ColsLoopWholeColumn(b, col_idx) ==
    IF col_idx > Len(b[1]) - 1 THEN "True"
    ELSE IF ~ColCellsLoop(b, col_idx, 1, Len(b), {}) THEN "False"
    ELSE ColsLoopWholeColumn(b, col_idx + 1)

check_uniqueness_in_columns_whole_column(b) == ColsLoopWholeColumn(b, 2)

check_uniqueness_in_columns(b) == ColsLoop(b, 2)

----------------------------------------------------------------------------
(* check_visibility *)

\* float('-inf'): below int(c) of every digit
NegInf == -1

\* the comparison that makes a building count: >= in place of >
TallerOrEqual(h, curr_max) == h >= curr_max

\* heights[idx] > curr_max
Taller(h, curr_max) == h > curr_max

\* the while loop of the leftmost hint: idx runs up; the count when it ends
RECURSIVE CountFromLeft(_, _, _, _)
CountFromLeft(heights, idx, count, curr_max) ==
    IF ~(idx <= Len(heights)) THEN count
    ELSE IF Taller(heights[idx], curr_max)
         THEN CountFromLeft(heights, idx + 1, count + 1, heights[idx])
    ELSE CountFromLeft(heights, idx + 1, count, curr_max)

\* the while loop of the rightmost hint: idx runs down; the count when it ends
RECURSIVE CountFromRight(_, _, _, _)
CountFromRight(heights, idx, count, curr_max) ==
    IF ~(idx >= 1) THEN count
    ELSE IF Taller(heights[idx], curr_max)
         THEN CountFromRight(heights, idx - 1, count + 1, heights[idx])
    ELSE CountFromRight(heights, idx - 1, count, curr_max)

\* the block of the rightmost hint and the final return
CheckRightHint(ln, heights) ==
    IF ln[Len(ln)] # "*"
    THEN LET count == CountFromRight(heights, Len(heights), 0, NegInf)
         IN  IF ~IsDigit(ln[Len(ln)]) THEN "ValueError"
             ELSE IF count # int(ln[Len(ln)]) THEN "False"
             ELSE "True"
    ELSE "True"

check_visibility(ln) ==
    LET interior == SubSeq(ln, 2, Len(ln) - 1)
    IN  IF \E i \in 1..Len(interior) : ~IsDigit(interior[i]) THEN "ValueError"
        ELSE LET heights == [i \in 1..Len(interior) |-> int(interior[i])]
             IN  IF ln[1] # "*"
                 THEN LET count == CountFromLeft(heights, 1, 0, NegInf)
                      IN  IF ~IsDigit(ln[1]) THEN "ValueError"
                          ELSE IF count # int(ln[1]) THEN "False"
                          ELSE CheckRightHint(ln, heights)
                 ELSE CheckRightHint(ln, heights)

----------------------------------------------------------------------------
(* check_horizontal_visibility, check_vertical_visibility *)

\* the loop over row_idx; lines collects the arguments of check_visibility
RECURSIVE HorizontalLoop(_, _, _)
HorizontalLoop(b, row_idx, lines) ==
    IF row_idx > Len(b) - 1 THEN [ret |-> "True", lines |-> lines]
    ELSE LET r == check_visibility(b[row_idx])
             seen == lines \cup {b[row_idx]}
         IN  IF r = "ValueError" THEN [ret |-> "ValueError", lines |-> seen]
             ELSE IF r # "True" THEN [ret |-> "False", lines |-> seen]
             ELSE HorizontalLoop(b, row_idx + 1, seen)

check_horizontal_visibility(b) == HorizontalLoop(b, 2, {}).ret

\* a column line that takes the row of that index in place of the column
RowAsColumn(b, col_idx) == b[col_idx]

\* "".join([board[row_idx][col_idx] for row_idx, _ in enumerate(board)])
ColumnLine(b, col_idx) == [row_idx \in 1..Len(b) |-> b[row_idx][col_idx]]

\* the loop over col_idx, range(1, len(board[0]) - 1)
RECURSIVE VerticalLoop(_, _, _)
VerticalLoop(b, col_idx, lines) ==
    IF col_idx > Len(b[1]) - 1 THEN [ret |-> "True", lines |-> lines]
    ELSE LET ln == ColumnLine(b, col_idx)
             r == check_visibility(ln)
             seen == lines \cup {ln}
         IN  IF r = "ValueError" THEN [ret |-> "ValueError", lines |-> seen]
             ELSE IF r # "True" THEN [ret |-> "False", lines |-> seen]
             ELSE VerticalLoop(b, col_idx + 1, seen)

check_vertical_visibility(b) == VerticalLoop(b, 2, {}).ret

----------------------------------------------------------------------------
(* check_skyscrapers, statement by statement *)

Call(fn, ret) == [fn |-> fn, ret |-> ret]

\* a gate that looks at is_unique alone
UniqueOnly(finished, unique) == unique = "True"

\* a gate that looks at is_finished alone
FinishedOnly(finished, unique) == finished = "True"

\* is_finished and is_unique
FinishedAndUnique(finished, unique) == finished = "True" /\ unique = "True"

\* an "or" where the program has "and"
ReturnOr(h, v) == IF h = "True" \/ v = "True" THEN "True" ELSE "False"

\* is_horizontally_valid and is_vertically_valid
ReturnAnd(h, v) == IF h = "True" /\ v = "True" THEN "True" ELSE "False"

\* board = read_input(input_path)
ReadInput ==
    /\ pc = "read_input"
    /\ board' = read_input(content)
    /\ calls' = Append(calls, Call("read_input", "list"))
    /\ pc' = "check_not_finished_board"
    /\ UNCHANGED <<content, is_finished, is_unique, is_horizontally_valid,
                   is_vertically_valid, result, vis_lines, line>>

\* is_finished = check_not_finished_board(board)
CheckNotFinishedBoard ==
    /\ pc = "check_not_finished_board"
    /\ is_finished' = check_not_finished_board(board)
    /\ calls' = Append(calls, Call("check_not_finished_board", is_finished'))
    /\ pc' = "check_uniqueness_in_rows"
    /\ UNCHANGED <<content, board, is_unique, is_horizontally_valid,
                   is_vertically_valid, result, vis_lines, line>>

\* the left operand of: is_unique = check_uniqueness_in_rows(board) and ...
\* "and" does not evaluate its right operand when the left one is False
CheckUniquenessInRows ==
    /\ pc = "check_uniqueness_in_rows"
    /\ LET r == check_uniqueness_in_rows(board)
       IN  /\ calls' = Append(calls, Call("check_uniqueness_in_rows", r))
           /\ IF r = "True"
              THEN /\ pc' = "check_uniqueness_in_columns"
                   /\ UNCHANGED is_unique
              ELSE /\ pc' = "gate"
                   /\ is_unique' = "False"
    /\ UNCHANGED <<content, board, is_finished, is_horizontally_valid,
                   is_vertically_valid, result, vis_lines, line>>

\* the right operand: ... and check_uniqueness_in_columns(board)
CheckUniquenessInColumns ==
    /\ pc = "check_uniqueness_in_columns"
    /\ is_unique' = check_uniqueness_in_columns(board)
    /\ calls' = Append(calls, Call("check_uniqueness_in_columns", is_unique'))
    /\ pc' = "gate"
    /\ UNCHANGED <<content, board, is_finished, is_horizontally_valid,
                   is_vertically_valid, result, vis_lines, line>>

\* if not (is_finished and is_unique): return False
Gate ==
    /\ pc = "gate"
    /\ IF ~FinishedAndUnique(is_finished, is_unique)
       THEN /\ result' = "False"
            /\ pc' = "done"
       ELSE /\ pc' = "check_horizontal_visibility"
            /\ UNCHANGED result
    /\ UNCHANGED <<content, board, is_finished, is_unique, is_horizontally_valid,
                   is_vertically_valid, calls, vis_lines, line>>

\* is_horizontally_valid = check_horizontal_visibility(board)
CheckHorizontalVisibility ==
    /\ pc = "check_horizontal_visibility"
    /\ LET r == HorizontalLoop(board, 2, {})
       IN  /\ calls' = Append(calls, Call("check_horizontal_visibility", r.ret))
           /\ vis_lines' = vis_lines \cup r.lines
           /\ IF r.ret = "ValueError"
              THEN /\ result' = "ValueError"
                   /\ pc' = "done"
                   /\ UNCHANGED is_horizontally_valid
              ELSE /\ is_horizontally_valid' = r.ret
                   /\ pc' = "check_vertical_visibility"
                   /\ UNCHANGED result
    /\ UNCHANGED <<content, board, is_finished, is_unique, is_vertically_valid, line>>

\* is_vertically_valid = check_vertical_visibility(board)
CheckVerticalVisibility ==
    /\ pc = "check_vertical_visibility"
    /\ LET r == VerticalLoop(board, 2, {})
       IN  /\ calls' = Append(calls, Call("check_vertical_visibility", r.ret))
           /\ vis_lines' = vis_lines \cup r.lines
           /\ IF r.ret = "ValueError"
              THEN /\ result' = "ValueError"
                   /\ pc' = "done"
                   /\ UNCHANGED is_vertically_valid
              ELSE /\ is_vertically_valid' = r.ret
                   /\ pc' = "return"
                   /\ UNCHANGED result
    /\ UNCHANGED <<content, board, is_finished, is_unique, is_horizontally_valid, line>>

\* return is_horizontally_valid and is_vertically_valid
Return ==
    /\ pc = "return"
    /\ result' = ReturnAnd(is_horizontally_valid, is_vertically_valid)
    /\ pc' = "done"
    /\ UNCHANGED <<content, board, is_finished, is_unique, is_horizontally_valid,
                   is_vertically_valid, calls, vis_lines, line>>

\* a call of check_visibility on its own
CheckVisibility ==
    /\ pc = "check_visibility"
    /\ result' = check_visibility(line)
    /\ vis_lines' = vis_lines \cup {line}
    /\ calls' = Append(calls, Call("check_visibility", result'))
    /\ pc' = "done"
    /\ UNCHANGED <<content, board, is_finished, is_unique, is_horizontally_valid,
                   is_vertically_valid, line>>

----------------------------------------------------------------------------
(* Inputs *)

\* the number of buildings seen from the left end of heights: those taller
\* than every building before them
Visible(heights) ==
    Cardinality({i \in 1..Len(heights) : \A j \in 1..(i - 1) : heights[j] < heights[i]})

Reverse(s) == [i \in 1..Len(s) |-> s[Len(s) + 1 - i]]

\* a solved N x N board: the interior is the cyclic Latin square of order
\* N - 2, every border cell carries the hint of its line, the corners are '*'
SolvedHeight(N, r, c) == ((r + c - 4) % (N - 2)) + 1
SolvedBoard(N) ==
    LET rowH(r) == [k \in 1..N - 2 |-> SolvedHeight(N, r, k + 1)]
        colH(c) == [k \in 1..N - 2 |-> SolvedHeight(N, k + 1, c)]
        inner(i) == i \in 2..N - 1
        cell(r, c) ==
            IF inner(r) /\ inner(c) THEN DigitChars[SolvedHeight(N, r, c) + 1]
            ELSE IF inner(r) /\ c = 1 THEN DigitChars[Visible(rowH(r)) + 1]
            ELSE IF inner(r) /\ c = N THEN DigitChars[Visible(Reverse(rowH(r))) + 1]
            ELSE IF inner(c) /\ r = 1 THEN DigitChars[Visible(colH(c)) + 1]
            ELSE IF inner(c) /\ r = N THEN DigitChars[Visible(Reverse(colH(c))) + 1]
            ELSE "*"
    IN  [r \in 1..N |-> [c \in 1..N |-> cell(r, c)]]

\* cell number p of the board (row by row) overwritten by the character ch
Put(b, p, ch) ==
    [b EXCEPT ![((p - 1) \div Len(b)) + 1][((p - 1) % Len(b)) + 1] = ch]

\* an edit is <<p, ch>>: cell p becomes ch; <<0, "*">> leaves the board alone
Edits(N) == {<<0, "*">>} \cup ((1..(N * N)) \X Cells)

\* edit lists without repetition: the cells go up, the unused slots come first
Ordered(e) == \A i \in 1..(Len(e) - 1) : e[i][1] = 0 \/ e[i][1] < e[i + 1][1]

RECURSIVE Overwritten(_, _, _)
Overwritten(b, e, i) ==
    IF i > Len(e) THEN b
    ELSE Overwritten(IF e[i][1] = 0 THEN b ELSE Put(b, e[i][1], e[i][2]), e, i + 1)

\* the text of the file that holds the board b, one row per line
RECURSIVE FileText(_)
FileText(b) ==
    IF b = <<>> THEN <<>> ELSE b[1] \o <<"\n">> \o FileText(Tail(b))

Start(text, ln, at) ==
    /\ content = text
    /\ line = ln
    /\ pc = at
    /\ board = <<>>
    /\ is_finished = Unset
    /\ is_unique = Unset
    /\ is_horizontally_valid = Unset
    /\ is_vertically_valid = Unset
    /\ result = Unset
    /\ calls = <<>>
    /\ vis_lines = {}

----------------------------------------------------------------------------
(* Specifications *)

\* check_skyscrapers on the file of a square board
Init ==
    \E N \in 2..MaxN : \E e \in [1..MaxEdits -> Edits(N)] :
        /\ Ordered(e)
        /\ Start(FileText(Overwritten(SolvedBoard(N), e, 1)), <<>>, "read_input")

Next ==
    \/ ReadInput
    \/ CheckNotFinishedBoard
    \/ CheckUniquenessInRows
    \/ CheckUniquenessInColumns
    \/ Gate
    \/ CheckHorizontalVisibility
    \/ CheckVerticalVisibility
    \/ Return

Spec == Init /\ [][Next]_vars

\* read_input on an arbitrary short text
InitRead == \E text \in SeqsUpTo(FileChars, MaxFileLen) : Start(text, <<>>, "read_input")

NextRead == ReadInput

SpecRead == InitRead /\ [][NextRead]_vars

\* check_visibility on an arbitrary short line
Lines == SeqsUpTo(Cells, MaxLineLen) \ SeqsUpTo(Cells, 1)

InitLine == \E ln \in Lines : Start(<<>>, ln, "check_visibility")

NextLine == CheckVisibility

SpecLine == InitLine /\ [][NextLine]_vars

----------------------------------------------------------------------------
(* Vocabulary of the properties *)

Booleans == {"True", "False"}
HintDigits == {DigitChars[d] : d \in 2..10}
\* read_input has just returned: board is what it loaded, and it never changes
Loaded == pc = "check_not_finished_board"

InteriorRows(b) == 2..(Len(b) - 1)
InteriorCols(b) == 2..(Len(b[1]) - 1)

AnyUnknown(b) == \E r \in 1..Len(b) : \E c \in 1..Len(b[r]) : b[r][c] = "?"
InteriorUnknown(b) ==
    \E r \in InteriorRows(b) : \E c \in 2..(Len(b[r]) - 1) : b[r][c] = "?"

RowDuplicate(b) ==
    \E r \in InteriorRows(b) : \E i, j \in 2..(Len(b[r]) - 1) :
        i # j /\ b[r][i] # "*" /\ b[r][i] = b[r][j]

ColDuplicate(b) ==
    \E c \in InteriorCols(b) : \E i, j \in InteriorRows(b) :
        i # j /\ b[i][c] # "*" /\ b[i][c] = b[j][c]

Transpose(b) == [c \in 1..Len(b[1]) |-> [r \in 1..Len(b) |-> b[r][c]]]

Returned(fn, ret) == \E k \in 1..Len(calls) : calls[k] = Call(fn, ret)
Called(fn) == \E k \in 1..Len(calls) : calls[k].fn = fn

VisibilityChecks == {"check_horizontal_visibility", "check_vertical_visibility"}
UniquenessChecks == {"check_uniqueness_in_rows", "check_uniqueness_in_columns"}

----------------------------------------------------------------------------
(* C1: check_skyscrapers returns False when the board is not complete or   *)
(* a uniqueness check is False; in every other case its result is          *)
(* check_horizontal_visibility(board) and check_vertical_visibility(board) *)
(* (when one of the two raises, so does check_skyscrapers).                *)
C1_Result ==
    pc = "done" =>
        IF \/ check_not_finished_board(board) = "False"
           \/ check_uniqueness_in_rows(board) = "False"
           \/ check_uniqueness_in_columns(board) = "False"
        THEN result = "False"
        ELSE LET h == check_horizontal_visibility(board)
                 v == check_vertical_visibility(board)
             IN  IF h \in Booleans /\ v \in Booleans
                 THEN result = (IF h = "True" /\ v = "True" THEN "True" ELSE "False")
                 ELSE result = "ValueError"

C1_Witness ==
    /\ pc = "done"
    /\ is_horizontally_valid = "True"
    /\ is_vertically_valid = "False"
    /\ result = "False"

----------------------------------------------------------------------------
WellFormedLine(ln) ==
    /\ Len(ln) >= 2
    /\ ln[1] \in HintDigits \cup {"*"}
    /\ ln[Len(ln)] \in HintDigits \cup {"*"}
    /\ \A i \in 2..(Len(ln) - 1) : ln[i] \in HintDigits

HeightsOf(ln) == [i \in 1..(Len(ln) - 2) |-> int(ln[i + 1])]

HintsMatch(ln) ==
    /\ ln[1] # "*" => Visible(HeightsOf(ln)) = int(ln[1])
    /\ ln[Len(ln)] # "*" => Visible(Reverse(HeightsOf(ln))) = int(ln[Len(ln)])

(* C2: on a line whose border cells are hint digits or '*' and whose       *)
(* interior cells are height digits, check_visibility returns True iff on  *)
(* each side with a hint digit H exactly H interior cells are strictly     *)
(* greater than every interior cell before them, scanning from that side;  *)
(* '*' constrains nothing and an equal height is not counted.              *)
C2_Visibility ==
    (pc = "done" /\ WellFormedLine(line)) =>
        result = (IF HintsMatch(line) THEN "True" ELSE "False")

C2_Witness ==
    /\ pc = "done"
    /\ WellFormedLine(line)
    /\ result = "True"
    /\ line[1] # "*"
    /\ line[Len(line)] # "*"
    /\ \E i, j \in 2..(Len(line) - 1) : i # j /\ line[i] = line[j]

----------------------------------------------------------------------------
(* C3: on a square board of digits, '*' and '?', check_skyscrapers returns *)
(* True or False and never raises an exception.                            *)
C3_NeverRaises == pc = "done" => result \in Booleans

----------------------------------------------------------------------------
(* C4: check_not_finished_board returns True iff no interior cell holds    *)
(* '?', also on boards with a '?' in a border row or column.               *)
C4_InteriorOnly ==
    is_finished # Unset => (is_finished = "True" <=> ~InteriorUnknown(board))

(* C4, amended: check_not_finished_board returns True iff no cell of the   *)
(* board, border or interior, holds '?'; so it returns False for every     *)
(* board with a '?' in an interior cell.                                   *)
C4_AnyCell ==
    is_finished # Unset =>
        /\ is_finished \in Booleans
        /\ is_finished = "True" <=> ~AnyUnknown(board)
        /\ InteriorUnknown(board) => is_finished = "False"

C4_Witness ==
    /\ is_finished = "False"
    /\ AnyUnknown(board)
    /\ ~InteriorUnknown(board)

----------------------------------------------------------------------------
(* C5: check_uniqueness_in_rows returns False iff some interior row has    *)
(* two interior cells that are not '*' and hold the same character; border *)
(* rows and the first and last cell of a row never influence the result.   *)
C5_Rows ==
    /\ Loaded =>
          /\ check_uniqueness_in_rows(board) \in Booleans
          /\ check_uniqueness_in_rows(board) = "False" <=> RowDuplicate(board)
    /\ \A k \in 1..Len(calls) :
          calls[k].fn = "check_uniqueness_in_rows" =>
              (calls[k].ret = "False" <=> RowDuplicate(board))

C5_Witness ==
    /\ Returned("check_uniqueness_in_rows", "True")
    /\ \E r \in InteriorRows(board) : \E c \in 2..(Len(board[r]) - 1) :
          board[r][1] = board[r][c]
    /\ \E c \in InteriorCols(board) : board[1][c] # "*" /\ board[1][c] = board[1][c + 1]

----------------------------------------------------------------------------
(* C6: on a square board check_uniqueness_in_columns returns False iff     *)
(* some interior column has two cells in interior rows that are not '*'    *)
(* and hold the same character; it is the row check of the transposed      *)
(* board, and border cells never influence the result.                     *)
C6_Columns ==
    /\ Loaded =>
          /\ check_uniqueness_in_columns(board) \in Booleans
          /\ check_uniqueness_in_columns(board) = "False" <=> ColDuplicate(board)
          /\ check_uniqueness_in_columns(board) = check_uniqueness_in_rows(Transpose(board))
    /\ \A k \in 1..Len(calls) :
          calls[k].fn = "check_uniqueness_in_columns" =>
              (calls[k].ret = "False" <=> ColDuplicate(board))

C6_Witness ==
    /\ Returned("check_uniqueness_in_columns", "True")
    /\ \E r1, r2 \in InteriorRows(board) :
          /\ r1 # r2
          /\ board[r1][Len(board)] \in HintDigits
          /\ board[r1][Len(board)] = board[r2][Len(board)]
    /\ \E c \in InteriorCols(board) : \E r \in InteriorRows(board) :
          board[1][c] = board[r][c]

----------------------------------------------------------------------------
(* C7: on a board with a '?' in an interior cell check_skyscrapers returns *)
(* False and, once check_not_finished_board has returned False, starts     *)
(* neither uniqueness check nor either visibility check.                   *)
C7_NothingAfterCompleteness ==
    (pc = "done" /\ InteriorUnknown(board)) =>
        /\ result = "False"
        /\ \A k \in 1..Len(calls) : calls[k].fn \notin UniquenessChecks \cup VisibilityChecks

(* C7, amended: on a board with a '?' in an interior cell                  *)
(* check_skyscrapers returns False and starts no visibility check; the     *)
(* completeness check returns False and check_uniqueness_in_rows (and,     *)
(* when it returns True, check_uniqueness_in_columns) still runs after it. *)
C7_NoVisibilityAfterCompleteness ==
    (pc = "done" /\ InteriorUnknown(board)) =>
        /\ result = "False"
        /\ \A k \in 1..Len(calls) : calls[k].fn \notin VisibilityChecks
        /\ vis_lines = {}
        /\ Len(calls) >= 3
        /\ calls[2] = Call("check_not_finished_board", "False")
        /\ calls[3].fn = "check_uniqueness_in_rows"
        /\ calls[3].ret = "True" <=> Called("check_uniqueness_in_columns")

C7_Witness ==
    /\ pc = "done"
    /\ InteriorUnknown(board)
    /\ Returned("check_not_finished_board", "False")
    /\ Called("check_uniqueness_in_columns")

----------------------------------------------------------------------------
ColumnInRowOrder(b, j) == [i \in 1..Len(b) |-> b[i][j]]

AllRowsVisible(b) == \A r \in InteriorRows(b) : check_visibility(b[r]) = "True"
AllColumnsVisible(b) ==
    \A j \in InteriorCols(b) : check_visibility(ColumnInRowOrder(b, j)) = "True"

(* C8: check_horizontal_visibility returns True iff check_visibility is    *)
(* True for every interior row, check_vertical_visibility iff it is True   *)
(* for every interior column, the line of column j being board[0][j],      *)
(* board[1][j], ..., board[N-1][j] in row order; border rows and border    *)
(* columns are never checked.                                              *)
C8_Lines ==
    /\ Loaded =>
          /\ check_horizontal_visibility(board) = "True" <=> AllRowsVisible(board)
          /\ check_vertical_visibility(board) = "True" <=> AllColumnsVisible(board)
    /\ \A k \in 1..Len(calls) :
          /\ calls[k].fn = "check_horizontal_visibility" =>
                (calls[k].ret = "True" <=> AllRowsVisible(board))
          /\ calls[k].fn = "check_vertical_visibility" =>
                (calls[k].ret = "True" <=> AllColumnsVisible(board))
    /\ \A ln \in vis_lines :
          \/ \E r \in InteriorRows(board) : ln = board[r]
          \/ \E j \in InteriorCols(board) : ln = ColumnInRowOrder(board, j)

C8_Witness ==
    /\ Returned("check_horizontal_visibility", "True")
    /\ Returned("check_vertical_visibility", "False")
    /\ check_visibility(board[1]) = "False"
    /\ \E j \in InteriorCols(board) :
          /\ board[1][j] # board[Len(board)][j]
          /\ check_visibility(ColumnInRowOrder(board, j)) = "False"

----------------------------------------------------------------------------
(* C10: the completeness check and both uniqueness checks finish before    *)
(* any visibility check starts, a visibility check starts only if all      *)
(* three returned True, and check_visibility is never applied to a line    *)
(* containing '?'.                                                         *)
C10_VisibilityLast ==
    /\ \A k \in 1..Len(calls) :
          calls[k].fn \in VisibilityChecks =>
              /\ k > 4
              /\ calls[2] = Call("check_not_finished_board", "True")
              /\ calls[3] = Call("check_uniqueness_in_rows", "True")
              /\ calls[4] = Call("check_uniqueness_in_columns", "True")
    /\ pc \in {"check_horizontal_visibility", "check_vertical_visibility", "return"} =>
          /\ Len(calls) >= 4
          /\ \A k \in 2..4 : calls[k].ret = "True"
    /\ \A ln \in vis_lines : "?" \notin Chars(ln)

C10_Witness ==
    /\ pc = "done"
    /\ Called("check_vertical_visibility")
    /\ vis_lines # {}
    /\ result = "True"

----------------------------------------------------------------------------
(* The lines of a text, told apart by where its newlines are *)

NewlineAt(s) == {p \in 1..Len(s) : s[p] = "\n"}

\* position of the n-th newline of s; 0 for n = 0
NthNewline(s, n) ==
    IF n = 0 THEN 0
    ELSE CHOOSE p \in NewlineAt(s) : Cardinality({q \in NewlineAt(s) : q <= p}) = n

LineCount(s) ==
    Cardinality(NewlineAt(s)) + (IF s # <<>> /\ s[Len(s)] # "\n" THEN 1 ELSE 0)

\* the i-th line of s without its newline
RawLine(s, i) ==
    LET first == NthNewline(s, i - 1) + 1
        last == IF i <= Cardinality(NewlineAt(s)) THEN NthNewline(s, i) - 1 ELSE Len(s)
    IN  SubSeq(s, first, last)

AllWhitespace(s, from, to) == \A p \in from..to : s[p] \in Whitespace

\* r is l without z characters of trailing whitespace, and ends in none
TrailingRemoved(r, l) ==
    \E z \in 0..Len(l) :
        /\ r = SubSeq(l, 1, Len(l) - z)
        /\ AllWhitespace(l, Len(l) - z + 1, Len(l))
        /\ r = <<>> \/ r[Len(r)] \notin Whitespace

\* r is l without its leading and its trailing whitespace
BothEndsRemoved(r, l) ==
    \E a, z \in 0..Len(l) :
        /\ a + z <= Len(l)
        /\ r = SubSeq(l, a + 1, Len(l) - z)
        /\ AllWhitespace(l, 1, a)
        /\ AllWhitespace(l, Len(l) - z + 1, Len(l))
        /\ r = <<>> \/ (r[1] \notin Whitespace /\ r[Len(r)] \notin Whitespace)

(* C9: read_input returns one string per line of the file, in file order,  *)
(* each being the line with only its trailing whitespace and newline       *)
(* removed; leading whitespace is preserved.                               *)
C9_TrailingOnly ==
    Loaded =>
        /\ Len(board) = LineCount(content)
        /\ \A i \in 1..Len(board) : TrailingRemoved(board[i], RawLine(content, i))

(* C9, amended: read_input returns one string per line of the file, in     *)
(* file order, each being the line with its newline and both its leading   *)
(* and its trailing whitespace removed; the characters in between are      *)
(* preserved unchanged.                                                    *)
C9_BothEnds ==
    Loaded =>
        /\ Len(board) = LineCount(content)
        /\ \A i \in 1..Len(board) : BothEndsRemoved(board[i], RawLine(content, i))

C9_Witness ==
    /\ Loaded
    /\ \E i \in 1..Len(board) :
          /\ board[i] # <<>>
          /\ RawLine(content, i)[1] = " "
          /\ Len(board[i]) < Len(RawLine(content, i))

====
